---- MODULE Spec2Model ----
(***************************************************************************)
(* Delayed event scheduling and dispatch of shipay-back-end.               *)
(*                                                                         *)
(* Two services share one Redis server but use disjoint keys:              *)
(*   - SchedulerService (app/services/scheduler.py): one hash per event    *)
(*     under "scheduler:job:<id>" and the sorted set "scheduler:queue";    *)
(*   - VideoRenderService (app/services/video_render.py): one JSON string  *)
(*     per event under "event:<id>", scanned by the event-checker loop.    *)
(* Every Redis or Kafka call is one atomic step; a coroutine or a worker   *)
(* process can be overtaken by another between two calls.                  *)
(*                                                                         *)
(* Time is counted in ticks, TicksPerSec ticks to the second; `now` is     *)
(* the local wall clock (datetime.now()); tz is the local offset from UTC. *)
(***************************************************************************)
EXTENDS Integers, Sequences, FiniteSets, TLC

MaxTime == 2
MaxIds == 1
MaxLimit == 2
MaxTzWest == 1
MaxEvents == 1

\* the retry budget of the settings (MAX_RETRIES)
max_attempts == 3
TicksPerSec == 2
\* the value of the concurrency limit the loops are held against
ConcurrencyLimit == 2
\* the clients RedisManager creates in a run
MaxClients == 3
\* RETRY_DELAY of the settings, in seconds
RETRY_DELAY == 1
\* the loops started in a run: one more than the limit
MaxLoops == ConcurrencyLimit + 1

Handlers == {"h1", "h2"}
Ids == 1..MaxIds
UnknownId == MaxIds + 1
Times == 0..(MaxTime + 1)
Workers == {"w1", "w2"}
Calls == {"c1", "c2"}
RenderIds == (MaxIds + 2)..(MaxIds + 1 + MaxEvents)
\* the keys of the scenarios with several due events: one more than RenderIds
BatchIds == RenderIds \cup {MaxIds + MaxEvents + 3}
\* the uuids of the listing scenarios: one more than Ids, out of the other ranges
PendingWord == MaxIds + MaxEvents + 4
ListIds == Ids \cup {MaxIds + MaxEvents + 2}

\* app/models/schemas.py: EventStatus
SCHEDULED == "scheduled"
PENDING == "pending"
PROCESSING == "processing"
COMPLETED == "completed"
FAILED == "failed"
EventStatus == {PENDING, SCHEDULED, PROCESSING, COMPLETED, FAILED}

VARIABLES
    now,        \* local wall clock, in ticks
    tz,         \* local offset from UTC, in ticks (fixed at start)
    jobs,       \* scheduler:job:<id> hashes: a function on the ids that have a hash
    queue,      \* scheduler:queue sorted set: member id -> score
    used,       \* uuids generated so far
    hpc,        \* per request coroutine: the Redis call it is about to make
    hreq,       \* per request coroutine: its arguments and locals
    resp,       \* the HTTP response sent by the step just taken (NoResp when it sent none)
    known,      \* event ids returned to a client by POST /events, with the requested time
    touched,    \* ids named so far by a status update or a cleanup request
    inserted,   \* the ids added to scheduler:queue, in the order of the ZADD calls
    events,     \* event:<id> strings: a function on the ids that have a record
    wpc,        \* per event-checker loop: the Redis or Kafka call it is about to make
    wnow,       \* per loop: `now` as read at the start of the current pass
    todo,       \* per loop: the keys of the current pass not yet visited
    cur,        \* per loop: the key being processed
    ev,         \* per loop: its in-memory RenderEvent
    missed,     \* the keys that were due, pending and not yet visited when a pass was
                \* ended by a storage error
    attempts,   \* per event and loop: "none", or how far the loop's attempt on it got:
                \* "claimed" (it wrote "processing"), then how the send went
    loops,      \* the number of _check_scheduled_events tasks running in the server
    mgr,        \* RedisManager: _client, _pool, the position of close(), the clients
                \* closed so far, and the value get_client returned last
    val         \* per call of ValidationService._make_request: its position in the
                \* retry loop and its outcome

schedState == <<jobs, queue, used, hpc, hreq, known, touched, inserted>>
schedVars == <<schedState, resp>>
renderVars == <<events, wpc, wnow, todo, cur, ev, attempts, missed>>
auxVars == <<loops, mgr, val>>
vars == <<now, tz, schedVars, renderVars, auxVars>>

----------------------------------------------------------------------------
(* datetime conversions *)

\* datetime.isoformat(): "...THH:MM:SS" and ".ffffff" only when the
\* sub-second part is not zero.  The text is modelled by its fields.
IsoFormat(t) ==
    IF t % TicksPerSec = 0 THEN <<t \div TicksPerSec>>
    ELSE <<t \div TicksPerSec, t % TicksPerSec>>

\* datetime.fromisoformat()
FromIsoFormat(s) ==
    IF Len(s) = 1 THEN s[1] * TicksPerSec ELSE s[1] * TicksPerSec + s[2]

\* datetime.utcnow(): the UTC wall clock as a naive datetime
UtcNow == now - tz

\* naive datetime.timestamp(): the datetime is read as local time
Timestamp(t) == t - tz

\* the validator with the comparison off by one: it lets v = now through
validate_scheduled_time_strict(v) == ~(v < now)

\* ScheduleEventRequest.validate_scheduled_time: raises unless v > now
validate_scheduled_time(v) == ~(v <= now)

----------------------------------------------------------------------------
(* Redis commands on the scheduler keys *)

NoJob == [event_id |-> 0, scheduled_time |-> <<>>, status |-> "none", updated_at |-> <<>>]

\* HGETALL: the hash, or the empty mapping for a missing key
Hgetall(id) == IF id \in DOMAIN jobs THEN jobs[id] ELSE NoJob

\* a store whose keys expire once the event's scheduled time has passed
Exists_expiring(id) == id \in DOMAIN jobs /\ ~(id \in DOMAIN known /\ known[id] < now)

\* an existence check that is never negative
Exists_always(id) == TRUE

\* EXISTS key
Exists(id) == id \in DOMAIN jobs

\* HSET key mapping: creates the hash when missing
HsetAll(id, data) == [k \in DOMAIN jobs \cup {id} |-> IF k = id THEN data ELSE jobs[k]]

\* HSET key status v updated_at v: sets two fields, creates the hash when missing
HsetStatus(id, status, at) ==
    HsetAll(id, [Hgetall(id) EXCEPT !.status = status, !.updated_at = at])

\* DEL key
Delete(store, id) == [k \in DOMAIN store \ {id} |-> store[k]]

\* ZADD queue {member: score}
Zadd(id, score) == [k \in DOMAIN queue \cup {id} |-> IF k = id THEN score ELSE queue[k]]

\* a removal that leaves the index as it is
Zrem_nothing(ids) == queue

\* ZREM queue members...
Zrem(ids) == [k \in DOMAIN queue \ ids |-> queue[k]]

Range(s) == {s[i] : i \in DOMAIN s}

\* Redis orders a sorted set by score and, for equal scores, by member
\* (lexicographically); the numeric order of the model's ids stands for the
\* lexicographic order of the uuid strings.
ZLess(a, b) == queue[a] < queue[b] \/ (queue[a] = queue[b] /\ a < b)

RECURSIVE SortedSeq(_)
SortedSeq(S) ==
    IF S = {} THEN <<>>
    ELSE LET m == CHOOSE x \in S : \A y \in S \ {x} : ZLess(x, y)
         IN <<m>> \o SortedSeq(S \ {m})

\* ZRANGEBYSCORE queue min max LIMIT 0 num
Zrangebyscore(min, max, num) ==
    LET all == SortedSeq({k \in DOMAIN queue : min <= queue[k] /\ queue[k] <= max})
    IN SubSeq(all, 1, IF Len(all) < num THEN Len(all) ELSE num)

----------------------------------------------------------------------------
(* SchedulerService and its routes *)

NoReq == [op |-> "none", id |-> 0, t |-> 0, status |-> "none", at |-> 0,
          ids |-> <<>>, acc |-> <<>>]

\* an HTTP response: the route, the status code, the event id and time it names, the records it lists
Response(op, code, id, t, body) == [op |-> op, code |-> code, id |-> id, t |-> t, body |-> body]
NoResp == Response("none", 0, 0, 0, <<>>)

\* the ids a client can name: those it was given, and one that was never issued
ClientIds == DOMAIN known \cup {UnknownId}

\* the hash written with the render service's initial status
EventData_pending(id, t, at) ==
    [event_id |-> id, scheduled_time |-> IsoFormat(t), status |-> PENDING,
     updated_at |-> IsoFormat(at)]

\* SchedulerService.schedule_event: the hash written for a new event
EventData(id, t, at) ==
    [event_id |-> id, scheduled_time |-> IsoFormat(t), status |-> SCHEDULED,
     updated_at |-> IsoFormat(at)]

\* POST /events with a scheduled time that fails validation: 422, handler not entered
ScheduleReject(h, t) ==
    /\ hpc[h] = "idle"
    /\ ~validate_scheduled_time(t)
    /\ resp' = Response("schedule", 422, 0, t, <<>>)
    /\ UNCHANGED <<auxVars, now, tz, renderVars, inserted, jobs, queue, used, hpc, hreq, known, touched>>

\* POST /events, valid: uuid4(), event_data built, HSET about to be sent
ScheduleStart(h, t, id) ==
    /\ hpc[h] = "idle"
    /\ validate_scheduled_time(t)
    /\ id \notin used
    /\ used' = used \cup {id}
    /\ hreq' = [hreq EXCEPT ![h] = [NoReq EXCEPT !.op = "schedule", !.id = id, !.t = t,
                                                 !.at = UtcNow]]
    /\ hpc' = [hpc EXCEPT ![h] = "sched_hset"]
    /\ resp' = NoResp
    /\ UNCHANGED <<auxVars, now, tz, renderVars, inserted, jobs, queue, known, touched>>

ScheduleHset(h) ==
    /\ hpc[h] = "sched_hset"
    /\ jobs' = HsetAll(hreq[h].id, EventData(hreq[h].id, hreq[h].t, hreq[h].at))
    /\ hpc' = [hpc EXCEPT ![h] = "sched_zadd"]
    /\ resp' = NoResp
    /\ UNCHANGED <<auxVars, now, tz, renderVars, inserted, queue, used, hreq, known, touched>>

ScheduleZadd(h) ==
    /\ hpc[h] = "sched_zadd"
    /\ queue' = Zadd(hreq[h].id, Timestamp(hreq[h].t))
    /\ resp' = Response("schedule", 200, hreq[h].id, hreq[h].t,
                        <<[event_id |-> hreq[h].id, scheduled_time |-> IsoFormat(hreq[h].t),
                           status |-> SCHEDULED, updated_at |-> <<>>]>>)
    /\ known' = [k \in DOMAIN known \cup {hreq[h].id} |->
                    IF k = hreq[h].id THEN hreq[h].t ELSE known[k]]
    /\ hpc' = [hpc EXCEPT ![h] = "idle"]
    /\ hreq' = [hreq EXCEPT ![h] = NoReq]
    /\ inserted' = Append(inserted, hreq[h].id)
    /\ UNCHANGED <<auxVars, now, tz, renderVars, jobs, used, touched>>

\* GET /events/{event_id}
GetEvent(h, id) ==
    /\ hpc[h] = "idle"
    /\ resp' = IF Hgetall(id) = NoJob
               THEN Response("get", 404, id, 0, <<>>)
               ELSE Response("get", 200, id, 0, <<Hgetall(id)>>)
    /\ UNCHANGED <<auxVars, now, tz, renderVars, inserted, jobs, queue, used, hpc, hreq, known, touched>>

\* PUT /events/{event_id}/status/{status}: EXISTS
UpdateExists(h, id, status) ==
    /\ hpc[h] = "idle"
    /\ touched' = touched \cup {id}
    /\ IF Exists(id)
       THEN /\ hpc' = [hpc EXCEPT ![h] = "upd_hset"]
            /\ hreq' = [hreq EXCEPT ![h] = [NoReq EXCEPT !.op = "update", !.id = id,
                                                         !.status = status]]
            /\ resp' = NoResp
       ELSE /\ resp' = Response("update", 404, id, 0, <<>>)
            /\ UNCHANGED <<hpc, hreq>>
    /\ UNCHANGED <<auxVars, now, tz, renderVars, inserted, jobs, queue, used, known>>

\* PUT /events/{event_id}/status/{status}: HSET status, updated_at
UpdateHset(h) ==
    /\ hpc[h] = "upd_hset"
    /\ jobs' = HsetStatus(hreq[h].id, hreq[h].status, IsoFormat(UtcNow))
    /\ resp' = Response("update", 200, hreq[h].id, 0, <<>>)
    /\ hpc' = [hpc EXCEPT ![h] = "idle"]
    /\ hreq' = [hreq EXCEPT ![h] = NoReq]
    /\ UNCHANGED <<auxVars, now, tz, renderVars, inserted, queue, used, known, touched>>

\* GET /events/pending: ZRANGEBYSCORE 0 now LIMIT 0 limit
PendingQuery(h, limit) ==
    /\ hpc[h] = "idle"
    /\ LET ids == Zrangebyscore(0, Timestamp(UtcNow), limit)
       IN IF ids = <<>>
          THEN /\ resp' = Response("pending", 200, 0, 0, <<>>)
               /\ UNCHANGED <<hpc, hreq>>
          ELSE /\ hpc' = [hpc EXCEPT ![h] = "pend_fetch"]
               /\ hreq' = [hreq EXCEPT ![h] = [NoReq EXCEPT !.op = "pending", !.ids = ids]]
               /\ resp' = NoResp
    /\ UNCHANGED <<auxVars, now, tz, renderVars, inserted, jobs, queue, used, known, touched>>

\* a listing that claims what it returns: each record read is set to "processing"
PendingFetch_claiming(h) ==
    /\ hpc[h] = "pend_fetch"
    /\ LET id == Head(hreq[h].ids)
           acc == IF Hgetall(id) = NoJob THEN hreq[h].acc
                  ELSE Append(hreq[h].acc, Hgetall(id))
       IN /\ jobs' = IF Exists(id) THEN HsetStatus(id, PROCESSING, IsoFormat(UtcNow)) ELSE jobs
          /\ IF Len(hreq[h].ids) = 1
             THEN /\ resp' = Response("pending", 200, 0, 0, acc)
                  /\ hpc' = [hpc EXCEPT ![h] = "idle"]
                  /\ hreq' = [hreq EXCEPT ![h] = NoReq]
             ELSE /\ hreq' = [hreq EXCEPT ![h].ids = Tail(@), ![h].acc = acc]
                  /\ resp' = NoResp
                  /\ UNCHANGED hpc
    /\ UNCHANGED <<auxVars, now, tz, renderVars, inserted, queue, used, known, touched>>

\* GET /events/pending: one HGETALL of the loop; the response after the last one
PendingFetch(h) ==
    /\ hpc[h] = "pend_fetch"
    /\ LET id == Head(hreq[h].ids)
           acc == IF Hgetall(id) = NoJob THEN hreq[h].acc
                  ELSE Append(hreq[h].acc, Hgetall(id))
       IN IF Len(hreq[h].ids) = 1
          THEN /\ resp' = Response("pending", 200, 0, 0, acc)
               /\ hpc' = [hpc EXCEPT ![h] = "idle"]
               /\ hreq' = [hreq EXCEPT ![h] = NoReq]
          ELSE /\ hreq' = [hreq EXCEPT ![h].ids = Tail(@), ![h].acc = acc]
               /\ resp' = NoResp
               /\ UNCHANGED hpc
    /\ UNCHANGED <<auxVars, now, tz, renderVars, inserted, jobs, queue, used, known, touched>>

\* the id lists a client sends to DELETE /events/cleanup
CleanupLists ==
    {<<>>} \cup {<<a>> : a \in ClientIds}
           \cup {<<p[1], p[2]>> : p \in {q \in ClientIds \X ClientIds : q[1] # q[2]}}

\* DELETE /events/cleanup: ZREM of all the ids (skipped for an empty list)
\* (ids is what the for loop has still to visit, acc the event_ids argument)
CleanupZrem(h, ids) ==
    /\ hpc[h] = "idle"
    /\ touched' = touched \cup Range(ids)
    /\ IF ids = <<>>
       THEN /\ resp' = Response("cleanup", 200, 0, 0, <<>>)
            /\ UNCHANGED <<hpc, hreq, queue>>
       ELSE /\ queue' = Zrem(Range(ids))
            /\ hpc' = [hpc EXCEPT ![h] = "rm_delete"]
            /\ hreq' = [hreq EXCEPT ![h] = [NoReq EXCEPT !.op = "cleanup", !.ids = ids,
                                                         !.acc = ids]]
            /\ resp' = NoResp
    /\ UNCHANGED <<auxVars, now, tz, renderVars, inserted, jobs, used, known>>

\* DELETE /events/cleanup: one DEL of the loop; the response after the last one
CleanupDelete(h) ==
    /\ hpc[h] = "rm_delete"
    /\ jobs' = Delete(jobs, Head(hreq[h].ids))
    /\ IF Len(hreq[h].ids) = 1
       THEN /\ resp' = Response("cleanup", 200, 0, 0, <<>>)
            /\ hpc' = [hpc EXCEPT ![h] = "idle"]
            /\ hreq' = [hreq EXCEPT ![h] = NoReq]
       ELSE /\ hreq' = [hreq EXCEPT ![h].ids = Tail(@)]
            /\ resp' = NoResp
            /\ UNCHANGED hpc
    /\ UNCHANGED <<auxVars, now, tz, renderVars, inserted, queue, used, known, touched>>

\* the wall clock advances
Advance ==
    /\ now < MaxTime
    /\ now' = now + 1
    /\ resp' = NoResp
    /\ UNCHANGED <<auxVars, tz, renderVars, schedState>>

----------------------------------------------------------------------------
(* RenderEvent (app/models/schemas.py) *)

\* the fields RenderEvent declares
RenderEventFields ==
    {"event_id", "event_type", "content", "scheduled_time", "status", "metadata",
     "created_at", "updated_at"}

\* the declared fields without a default
RenderEventRequired == {"event_id", "event_type", "content", "scheduled_time"}

\* RenderEvent(**given): a ValidationError unless every required field is given
ConstructorRaises(given) == ~(RenderEventRequired \subseteq given)

\* a model that takes any attribute, as if processed_at were declared
SetAttrRaises_never(name) == FALSE

\* event.<name> = value: a ValueError for a name the model does not declare
SetAttrRaises(name) == name \notin RenderEventFields

----------------------------------------------------------------------------
(* VideoRenderService: the event-checker loop *)

NoEvent == [status |-> "none", scheduled_time |-> 0, updated_at |-> 0]

\* GET event:<id>
RedisGet(k) == IF k \in DOMAIN events THEN events[k] ELSE NoEvent

\* SET event:<id> value
RedisSet(k, rec) == [x \in DOMAIN events \cup {k} |-> IF x = k THEN rec ELSE events[x]]

\* what the attempts so far on an event amount to
Claims(k) == {w \in Workers : attempts[k][w] # "none"}
Handed(k) == {w \in Workers : attempts[k][w] \in {"ack", "nack"}}
Failures(k) == Cardinality({w \in Workers : attempts[k][w] \in {"nack", "raise"}})

\* a test on the status alone, without the comparison of the times
DueAndPending_status_only(rec, at) ==
    rec # NoEvent /\ rec.status = PENDING

\* the condition of _process_due_events on one record
DueAndPending(rec, at) ==
    rec # NoEvent /\ rec.scheduled_time <= at /\ rec.status = PENDING

\* the status the attempt goes on to write after the send: the try block sets
\* "completed" and then processed_at; an exception anywhere in it ends in the
\* except branch, which sets "failed"
OutcomeStatus(r) ==
    IF r = "raise" \/ SetAttrRaises("processed_at") THEN FAILED ELSE COMPLETED

\* one pass starts: now = datetime.now(); redis.keys("event:*")
Tick(w) ==
    /\ wpc[w] = "sleep"
    /\ wnow' = [wnow EXCEPT ![w] = now]
    /\ todo' = [todo EXCEPT ![w] = DOMAIN events]
    /\ wpc' = [wpc EXCEPT ![w] = "scan"]
    /\ resp' = NoResp
    /\ UNCHANGED <<auxVars, now, tz, schedState, missed, events, cur, ev, attempts>>

\* redis.get(event_key) and the test on the record
Get(w, k) ==
    /\ wpc[w] = "scan"
    /\ k \in todo[w]
    /\ todo' = [todo EXCEPT ![w] = @ \ {k}]
    /\ IF DueAndPending(RedisGet(k), wnow[w])
       THEN /\ cur' = [cur EXCEPT ![w] = k]
            /\ ev' = [ev EXCEPT ![w] = [RedisGet(k) EXCEPT !.status = PROCESSING]]
            /\ wpc' = [wpc EXCEPT ![w] = "set_processing"]
       ELSE UNCHANGED <<cur, ev, wpc>>
    /\ resp' = NoResp
    /\ UNCHANGED <<auxVars, now, tz, schedState, missed, events, wnow, attempts>>

\* redis.set(event_key, event.json()) with status "processing"
SetProcessing(w) ==
    /\ wpc[w] = "set_processing"
    /\ events' = RedisSet(cur[w], ev[w])
    /\ attempts' = [attempts EXCEPT ![cur[w]][w] = "claimed"]
    /\ wpc' = [wpc EXCEPT ![w] = "send"]
    /\ resp' = NoResp
    /\ UNCHANGED <<auxVars, now, tz, schedState, missed, wnow, todo, cur, ev>>

\* kafka_producer.send(...): it raises ("raise"), or it returns and the broker
\* later acknowledges the record ("ack") or the delivery fails ("nack")
Send(w, r) ==
    /\ wpc[w] = "send"
    /\ attempts' = [attempts EXCEPT ![cur[w]][w] = r]
    /\ ev' = [ev EXCEPT ![w].status = OutcomeStatus(r)]
    /\ wpc' = [wpc EXCEPT ![w] = "set_outcome"]
    /\ resp' = NoResp
    /\ UNCHANGED <<auxVars, now, tz, schedState, missed, events, wnow, todo, cur>>

\* redis.set(event_key, event.json()) with the outcome of the attempt; the for
\* loop goes on
SetOutcome(w) ==
    /\ wpc[w] = "set_outcome"
    /\ events' = RedisSet(cur[w], ev[w])
    /\ wpc' = [wpc EXCEPT ![w] = "scan"]
    /\ cur' = [cur EXCEPT ![w] = 0]
    /\ ev' = [ev EXCEPT ![w] = NoEvent]
    /\ resp' = NoResp
    /\ UNCHANGED <<auxVars, now, tz, schedState, missed, wnow, todo, attempts>>

\* the for loop is over: the pass returns and the loop sleeps
PassEnd(w) ==
    /\ wpc[w] = "scan"
    /\ todo[w] = {}
    /\ wpc' = [wpc EXCEPT ![w] = "sleep"]
    /\ wnow' = [wnow EXCEPT ![w] = 0]
    /\ resp' = NoResp
    /\ UNCHANGED <<auxVars, now, tz, schedState, missed, events, todo, cur, ev, attempts>>

\* a loop that a storage error terminates
StorageError_fatal(w) ==
    /\ wpc[w] \in {"scan", "set_processing", "set_outcome"}
    /\ wpc' = [wpc EXCEPT ![w] = "crashed"]
    /\ missed' = missed \cup {k \in todo[w] : DueAndPending(RedisGet(k), wnow[w])}
    /\ resp' = NoResp
    /\ UNCHANGED <<auxVars, now, tz, schedState, events, wnow, todo, cur, ev, attempts>>

\* a Redis call of the pass raises: inside the try block the except branch takes
\* over (it sets "failed" and writes); anywhere else the pass is over and
\* _check_scheduled_events logs and sleeps
StorageError(w) ==
    /\ wpc[w] \in {"scan", "set_processing", "set_outcome"}
    /\ IF wpc[w] = "set_processing" \/ (wpc[w] = "set_outcome" /\ ev[w].status = COMPLETED)
       THEN /\ ev' = [ev EXCEPT ![w].status = FAILED]
            /\ wpc' = [wpc EXCEPT ![w] = "set_outcome"]
            /\ UNCHANGED <<wnow, todo, cur, missed>>
       ELSE /\ wpc' = [wpc EXCEPT ![w] = "sleep"]
            /\ missed' = missed \cup {k \in todo[w] : DueAndPending(RedisGet(k), wnow[w])}
            /\ wnow' = [wnow EXCEPT ![w] = 0]
            /\ todo' = [todo EXCEPT ![w] = {}]
            /\ cur' = [cur EXCEPT ![w] = 0]
            /\ ev' = [ev EXCEPT ![w] = NoEvent]
    /\ resp' = NoResp
    /\ UNCHANGED <<auxVars, now, tz, schedState, events, attempts>>

\* VideoRenderService.schedule_event: RenderEvent(event_id, content,
\* scheduled_time) is built first; when that raises, the except branch answers
\* 500 and nothing is written
ScheduleEventCall(t, id) ==
    /\ validate_scheduled_time(t)
    /\ id \in RenderIds
    /\ IF ConstructorRaises({"event_id", "content", "scheduled_time"})
       THEN /\ resp' = Response("render_schedule", 500, 0, t, <<>>)
            /\ UNCHANGED events
       ELSE /\ id \notin DOMAIN events
            /\ events' = RedisSet(id, [status |-> SCHEDULED, scheduled_time |-> t,
                                        updated_at |-> now])
            /\ resp' = Response("render_schedule", 200, id, t,
                                <<[status |-> SCHEDULED, scheduled_time |-> t,
                                   updated_at |-> now]>>)
    /\ UNCHANGED <<mgr, val, now, tz, schedState, missed, wpc, wnow, todo, cur, ev, attempts>>

\* schedule_event called on a service that exists already
RenderSchedule(t, id) == ScheduleEventCall(t, id) /\ UNCHANGED loops

\* the status code that leaves a try block whose handler is `except Exception`
\* when the block raises HTTPException(code): HTTPException is an Exception,
\* so the handler catches it and raises HTTPException(500) in its place
ExceptException(code) == 500

\* VideoRenderService.get_event_status: redis.get, HTTPException(404) raised
\* inside the try block when there is no value
GetEventStatusCall(k) ==
    /\ resp' = IF RedisGet(k) = NoEvent
               THEN Response("render_status", ExceptException(404), k, 0, <<>>)
               ELSE Response("render_status", 200, k, 0, <<RedisGet(k)>>)
    /\ UNCHANGED <<mgr, val, now, tz, schedState, missed, renderVars>>

\* get_event_status called on a service that exists already
GetEventStatus(k) == GetEventStatusCall(k) /\ UNCHANGED loops

\* VideoRenderService(): __init__ ends with _start_event_checker, which creates
\* a task running _check_scheduled_events; the loop of that task never ends
start_event_checker ==
    /\ loops < MaxLoops
    /\ loops' = loops + 1

\* VideoRenderService() raises before the task is created (KafkaProducer finds
\* no broker, or create_task finds no running event loop in the thread the
\* dependency is built in): the request is answered 500 and no loop is started
ConstructionRaises(op, k, t) ==
    /\ resp' = Response(op, 500, k, t, <<>>)
    /\ UNCHANGED <<auxVars, now, tz, schedState, renderVars>>

\* POST /render/schedule: `service: VideoRenderService = Depends()` builds a
\* service for the request, then the endpoint awaits its schedule_event
schedule_event_route(t, id) ==
    \/ start_event_checker /\ ScheduleEventCall(t, id)
    \/ ConstructionRaises("render_schedule", 0, t)

\* GET /render/status/{event_id}: the same construction, then get_event_status
get_event_status_route(k) ==
    \/ start_event_checker /\ GetEventStatusCall(k)
    \/ ConstructionRaises("render_status", k, 0)

\* the process running the loop is killed
Crash(w) ==
    /\ wpc[w] # "crashed"
    /\ wpc' = [wpc EXCEPT ![w] = "crashed"]
    /\ resp' = NoResp
    /\ UNCHANGED <<auxVars, now, tz, schedState, missed, events, wnow, todo, cur, ev, attempts>>

----------------------------------------------------------------------------
(* The scheduler router (app/api/v1/routers/scheduler.py) *)

\* the routes in the order of their declaration; a path is the sequence of its
\* segments
SchedulerRoutes ==
    << [method |-> "POST", path |-> <<"events">>, endpoint |-> "schedule_event"],
       [method |-> "GET", path |-> <<"events", "{event_id}">>, endpoint |-> "get_event"],
       [method |-> "PUT", path |-> <<"events", "{event_id}", "status", "{status}">>,
        endpoint |-> "update_event_status"],
       [method |-> "GET", path |-> <<"events", "pending">>,
        endpoint |-> "get_pending_events"],
       [method |-> "DELETE", path |-> <<"events", "cleanup">>,
        endpoint |-> "cleanup_completed_events"] >>

\* a path parameter matches any one segment
IsParam(seg) == seg \in {"{event_id}", "{status}"}

Matches(route, method, path) ==
    /\ route.method = method
    /\ Len(route.path) = Len(path)
    /\ \A i \in DOMAIN path : IsParam(route.path[i]) \/ route.path[i] = path[i]

\* the router takes the first route, in declaration order, that matches
FirstMatch(method, path) ==
    LET hits == {i \in DOMAIN SchedulerRoutes : Matches(SchedulerRoutes[i], method, path)}
    IN IF hits = {} THEN 0 ELSE CHOOSE i \in hits : \A j \in hits : i <= j

\* the paths of the GET requests: /events/pending and /events/<an id>
GetPaths == {<<"events", "pending">>, <<"events", "<id>">>}

\* the string bound to event_id, as a key of the store: the word "pending" is
\* no uuid, and is numbered apart from every id
EventIdParam(path, id) == IF path[2] = "pending" THEN PendingWord ELSE id

\* GET path: the endpoint of the first matching route is called
HttpGet(h, path, id, n) ==
    LET r == FirstMatch("GET", path)
    IN /\ r # 0
       /\ CASE SchedulerRoutes[r].endpoint = "get_event" ->
                   GetEvent(h, EventIdParam(path, id))
            [] SchedulerRoutes[r].endpoint = "get_pending_events" ->
                   PendingQuery(h, n)
            [] OTHER -> FALSE

----------------------------------------------------------------------------
(* RedisManager (app/core/redis.py) *)

\* Python's None, for _client, _pool and self.redis; clients and pools are
\* numbered from 1 in the order of their creation
None == 0

\* the class attributes before the first initialize(), no close() running,
\* no request holding a client
NoManager ==
    [client |-> None, pool |-> None, made |-> 0, pc |-> "idle", closed |-> {},
     rpc |-> [h \in Handlers |-> "new"], held |-> [h \in Handlers |-> None]]

\* RedisManager.initialize: a pool and a client are created when _pool is None,
\* and nothing is done otherwise
initialize(m) ==
    IF m.pool = None
    THEN [m EXCEPT !.pool = m.made + 1, !.client = m.made + 1, !.made = m.made + 1]
    ELSE m

\* RedisManager.get_client: initialize() has no await inside, so the call runs
\* to its return without a suspension
get_client(m) == IF m.client = None THEN initialize(m) ELSE m

\* startup_event: await RedisManager.initialize()
Initialize ==
    /\ mgr.made < MaxClients
    /\ mgr' = initialize(mgr)
    /\ resp' = NoResp
    /\ UNCHANGED <<loops, val, now, tz, schedState, renderVars>>

\* SchedulerService._get_redis in a new service object (self.redis is None):
\* self.redis = await RedisManager.get_client()
GetRedis(h) ==
    /\ mgr.rpc[h] = "new"
    /\ mgr.made < MaxClients \/ get_client(mgr) = mgr
    /\ mgr' = [get_client(mgr) EXCEPT !.rpc[h] = "got",
                                      !.held[h] = get_client(mgr).client]
    /\ resp' = NoResp
    /\ UNCHANGED <<loops, val, now, tz, schedState, renderVars>>

\* the request ends and its service object goes with it
EndRequest(h) ==
    /\ mgr.rpc[h] = "got"
    /\ mgr' = [mgr EXCEPT !.rpc[h] = "new", !.held[h] = None]
    /\ resp' = NoResp
    /\ UNCHANGED <<loops, val, now, tz, schedState, renderVars>>

\* shutdown_event: RedisManager.close() up to its first await
CloseStart ==
    /\ mgr.pc = "idle"
    /\ mgr.client # None \/ mgr.pool # None
    /\ mgr' = [mgr EXCEPT !.pc = IF mgr.client # None THEN "client_close"
                                 ELSE "pool_disconnect"]
    /\ resp' = NoResp
    /\ UNCHANGED <<loops, val, now, tz, schedState, renderVars>>

\* `await cls._client.close()` returns: _client = None, then `if cls._pool`
\* and the second await
CloseClientReturns ==
    /\ mgr.pc = "client_close"
    /\ mgr' = [mgr EXCEPT !.closed = @ \cup {mgr.client},
                          !.client = None,
                          !.pc = IF mgr.pool # None THEN "pool_disconnect" ELSE "idle"]
    /\ resp' = NoResp
    /\ UNCHANGED <<loops, val, now, tz, schedState, renderVars>>

\* `await cls._pool.disconnect()` returns: _pool = None
CloseDisconnectReturns ==
    /\ mgr.pc = "pool_disconnect"
    /\ mgr' = [mgr EXCEPT !.pool = None, !.pc = "idle"]
    /\ resp' = NoResp
    /\ UNCHANGED <<loops, val, now, tz, schedState, renderVars>>

----------------------------------------------------------------------------
(* ValidationService._make_request (app/services/validation.py) *)

\* self.max_retries = settings.MAX_RETRIES
max_retries == max_attempts

\* self.retry_delay = settings.RETRY_DELAY, in ticks
retry_delay == RETRY_DELAY * TicksPerSec

\* a call not yet made: the index of the for loop, the attempts made, the
\* ticks slept since the last failed attempt, and how the call ended
NoCall == [pc |-> "idle", attempt |-> 0, made |-> 0, slept |-> 0, out |-> "none"]

\* a test that never finds the last attempt
LastAttempt_never(attempt) == FALSE

\* `if attempt == self.max_retries - 1`
LastAttempt(attempt) == attempt = max_retries - 1

\* _make_request is called: the for loop starts, or ends at once when
\* range(max_retries) is empty
MakeRequest(c) ==
    /\ val[c].pc = "idle"
    /\ val' = [val EXCEPT ![c] = IF 0 < max_retries
                                 THEN [NoCall EXCEPT !.pc = "get"]
                                 ELSE [NoCall EXCEPT !.pc = "done", !.out = "returned_none"]]
    /\ resp' = NoResp
    /\ UNCHANGED <<loops, mgr, now, tz, schedState, renderVars>>

\* client.get answers, raise_for_status passes and response.json() is returned
AttemptSucceeds(c) ==
    /\ val[c].pc = "get"
    /\ val' = [val EXCEPT ![c].made = @ + 1, ![c].pc = "done", ![c].out = "response"]
    /\ resp' = NoResp
    /\ UNCHANGED <<loops, mgr, now, tz, schedState, renderVars>>

\* client.get or raise_for_status raises httpx.HTTPError: HTTPException(500)
\* on the last attempt, asyncio.sleep(retry_delay) otherwise
AttemptFails(c) ==
    /\ val[c].pc = "get"
    /\ val' = IF LastAttempt(val[c].attempt)
              THEN [val EXCEPT ![c].made = @ + 1, ![c].pc = "done", ![c].out = "error"]
              ELSE [val EXCEPT ![c].made = @ + 1, ![c].pc = "sleep", ![c].slept = 0]
    /\ resp' = NoResp
    /\ UNCHANGED <<loops, mgr, now, tz, schedState, renderVars>>

\* response.json() raises (the body is no JSON): no handler, the error leaves
\* the call
AttemptRaisesOther(c) ==
    /\ val[c].pc = "get"
    /\ val' = [val EXCEPT ![c].made = @ + 1, ![c].pc = "done", ![c].out = "error"]
    /\ resp' = NoResp
    /\ UNCHANGED <<loops, mgr, now, tz, schedState, renderVars>>

\* a tick passes in asyncio.sleep(retry_delay)
Sleep(c) ==
    /\ val[c].pc = "sleep"
    /\ val[c].slept < retry_delay
    /\ val' = [val EXCEPT ![c].slept = @ + 1]
    /\ resp' = NoResp
    /\ UNCHANGED <<loops, mgr, now, tz, schedState, renderVars>>

\* the sleep is over: the next iteration, or the end of the for loop, after
\* which the function returns None
Wake(c) ==
    /\ val[c].pc = "sleep"
    /\ val[c].slept >= retry_delay
    /\ val' = IF val[c].attempt + 1 < max_retries
              THEN [val EXCEPT ![c].attempt = @ + 1, ![c].pc = "get"]
              ELSE [val EXCEPT ![c].pc = "done", ![c].out = "returned_none"]
    /\ resp' = NoResp
    /\ UNCHANGED <<loops, mgr, now, tz, schedState, renderVars>>

----------------------------------------------------------------------------
(* Specifications *)

\* no loop started by a request, RedisManager untouched, no validation call made
AuxInit ==
    /\ loops = 0
    /\ mgr = NoManager
    /\ val = [c \in Calls |-> NoCall]

SchedInit ==
    /\ now = 0
    /\ jobs = << >>
    /\ queue = << >>
    /\ used = {}
    /\ hpc = [h \in Handlers |-> "idle"]
    /\ hreq = [h \in Handlers |-> NoReq]
    /\ resp = NoResp
    /\ known = << >>
    /\ touched = {}
    /\ inserted = << >>

WorkersInit ==
    /\ wpc = [w \in Workers |-> "sleep"]
    /\ wnow = [w \in Workers |-> 0]
    /\ todo = [w \in Workers |-> {}]
    /\ cur = [w \in Workers |-> 0]
    /\ ev = [w \in Workers |-> NoEvent]
    /\ attempts = [k \in RenderIds |-> [w \in Workers |-> "none"]]
    /\ missed = {}

\* the records found under event:* when the loops start (time 0): complete
\* RenderEvent documents, last written at time 0
InitialStores ==
    UNION {[S -> [status : {PENDING, SCHEDULED}, scheduled_time : 0..MaxTime,
                  updated_at : {0}]] :
           S \in SUBSET RenderIds}

\* the scheduler routes on an empty Redis
Init ==
    /\ AuxInit
    /\ tz \in (0 - MaxTzWest)..0
    /\ SchedInit
    /\ WorkersInit
    /\ events = << >>

Next ==
    \/ Advance
    \/ \E h \in Handlers, t \in Times : ScheduleReject(h, t)
    \/ \E h \in Handlers, t \in Times, id \in Ids : ScheduleStart(h, t, id)
    \/ \E h \in Handlers : ScheduleHset(h)
    \/ \E h \in Handlers : ScheduleZadd(h)
    \/ \E h \in Handlers, id \in ClientIds : GetEvent(h, id)
    \/ \E h \in Handlers, id \in ClientIds, s \in EventStatus : UpdateExists(h, id, s)
    \/ \E h \in Handlers : UpdateHset(h)
    \/ \E h \in Handlers, n \in 1..MaxLimit : PendingQuery(h, n)
    \/ \E h \in Handlers : PendingFetch(h)
    \/ \E h \in Handlers, ids \in CleanupLists : CleanupZrem(h, ids)
    \/ \E h \in Handlers : CleanupDelete(h)

Spec == Init /\ [][Next]_vars

\* the event-checker loops of several processes on one Redis
DispatchInit ==
    /\ AuxInit
    /\ tz = 0
    /\ SchedInit
    /\ WorkersInit
    /\ events \in InitialStores

WorkerStep(w) ==
    \/ Tick(w)
    \/ \E k \in RenderIds : Get(w, k)
    \/ SetProcessing(w)
    \/ \E r \in {"ack", "nack", "raise"} : Send(w, r)
    \/ SetOutcome(w)
    \/ PassEnd(w)

DispatchNext ==
    \/ Advance
    \/ \E k \in RenderIds \cup {UnknownId} : GetEventStatus(k)
    \/ \E w \in Workers : WorkerStep(w)
    \/ \E w \in Workers : StorageError(w)
    \/ \E w \in Workers : Crash(w)

DispatchSpec == DispatchInit /\ [][DispatchNext]_vars

\* the loops under fair scheduling: asyncio resumes a loop after each sleep
\* and each call returns; the clock runs; one process may be killed
DispatchFairNext ==
    \/ Advance
    \/ \E w \in Workers : WorkerStep(w)
    \/ Crash("w1")

DispatchFairSpec ==
    /\ DispatchInit
    /\ [][DispatchFairNext]_vars
    /\ WF_vars(Advance)
    /\ \A w \in Workers : WF_vars(WorkerStep(w))

\* a storage error of an outage that is over before the clock reaches MaxTime
TransientStorageError(w) ==
    /\ now < MaxTime
    /\ StorageError(w)

\* the loops under fair scheduling, with a Redis that fails for a while
StorageFairNext ==
    \/ Advance
    \/ \E w \in Workers : WorkerStep(w)
    \/ \E w \in Workers : TransientStorageError(w)

StorageFairSpec ==
    /\ DispatchInit
    /\ [][StorageFairNext]_vars
    /\ WF_vars(Advance)
    /\ \A w \in Workers : WF_vars(WorkerStep(w))

\* the loops of one server process: they share one thread, and a pass has no
\* await, so a loop takes a step only while every other loop is in its
\* asyncio.sleep
InPass(w) == wpc[w] \notin {"sleep", "crashed"}

\* a step of the pass of loop w other than the return of kafka_producer.send
PassStep(w) ==
    /\ \A o \in Workers \ {w} : ~InPass(o)
    /\ \/ Tick(w)
       \/ \E k \in BatchIds : Get(w, k)
       \/ SetProcessing(w)
       \/ SetOutcome(w)
       \/ PassEnd(w)

\* kafka_producer.send returns
SendReturns(w) ==
    /\ \A o \in Workers \ {w} : ~InPass(o)
    /\ \E r \in {"ack", "nack", "raise"} : Send(w, r)

\* several events, all pending, under event:* when the loops start
BatchInit ==
    /\ AuxInit
    /\ tz = 0
    /\ SchedInit
    /\ wpc = [w \in Workers |-> "sleep"]
    /\ wnow = [w \in Workers |-> 0]
    /\ todo = [w \in Workers |-> {}]
    /\ cur = [w \in Workers |-> 0]
    /\ ev = [w \in Workers |-> NoEvent]
    /\ attempts = [k \in BatchIds |-> [w \in Workers |-> "none"]]
    /\ missed = {}
    /\ events \in [BatchIds -> [status : {PENDING}, scheduled_time : 0..MaxTime,
                                updated_at : {0}]]

BatchNext ==
    \/ Advance
    \/ \E w \in Workers : PassStep(w)
    \/ \E w \in Workers : SendReturns(w)

BatchSpec == BatchInit /\ [][BatchNext]_vars

\* the render routes of one server process and the loops its requests start:
\* the loops w1 and w2 of the model are the first two started
Started(w) == IF w = "w1" THEN loops >= 1 ELSE loops >= 2

LoopStep(w) ==
    /\ Started(w)
    /\ \A o \in Workers \ {w} : ~InPass(o)
    /\ WorkerStep(w)
    /\ UNCHANGED loops

RenderApiNext ==
    \/ Advance
    \/ \E t \in Times, id \in RenderIds : schedule_event_route(t, id)
    \/ \E k \in RenderIds \cup {UnknownId} : get_event_status_route(k)
    \/ \E w \in Workers : LoopStep(w)

RenderApiSpec == DispatchInit /\ [][RenderApiNext]_vars

\* requests taking the shared client while the application starts and shuts down
ManagerNext ==
    \/ Initialize
    \/ \E h \in Handlers : GetRedis(h)
    \/ \E h \in Handlers : EndRequest(h)
    \/ CloseStart
    \/ CloseClientReturns
    \/ CloseDisconnectReturns

\* the process before its startup event, on an empty Redis
ManagerInit ==
    /\ tz = 0
    /\ AuxInit
    /\ SchedInit
    /\ WorkersInit
    /\ events = << >>

ManagerSpec == ManagerInit /\ [][ManagerNext]_vars

\* concurrent calls of _make_request
RetryNext ==
    \/ \E c \in Calls : MakeRequest(c)
    \/ \E c \in Calls : AttemptSucceeds(c)
    \/ \E c \in Calls : AttemptFails(c)
    \/ \E c \in Calls : AttemptRaisesOther(c)
    \/ \E c \in Calls : Sleep(c)
    \/ \E c \in Calls : Wake(c)

RetrySpec == ManagerInit /\ [][RetryNext]_vars

\* clients of the scheduler router: POST /events and the GET requests (no GET
\* request reaches get_pending_events, so its HGETALL loop has no step here)
RouteNext ==
    \/ Advance
    \/ \E h \in Handlers, t \in Times : ScheduleReject(h, t)
    \/ \E h \in Handlers, t \in Times, id \in Ids : ScheduleStart(h, t, id)
    \/ \E h \in Handlers : ScheduleHset(h)
    \/ \E h \in Handlers : ScheduleZadd(h)
    \/ \E h \in Handlers, path \in GetPaths, id \in ClientIds, n \in 1..MaxLimit :
           HttpGet(h, path, id, n)

RouteSpec == Init /\ [][RouteNext]_vars

\* scheduling requests and the loops together, under fair scheduling
FairNext ==
    \/ Advance
    \/ \E h \in Handlers, t \in Times, id \in Ids : ScheduleStart(h, t, id)
    \/ \E h \in Handlers : ScheduleHset(h)
    \/ \E h \in Handlers : ScheduleZadd(h)
    \/ \E t \in Times, id \in RenderIds : RenderSchedule(t, id)
    \/ \E w \in Workers : WorkerStep(w)

FairSpec ==
    /\ DispatchInit
    /\ [][FairNext]_vars
    /\ WF_vars(Advance)
    /\ \A h \in Handlers : WF_vars(ScheduleHset(h) \/ ScheduleZadd(h))
    /\ \A w \in Workers : WF_vars(WorkerStep(w))

\* one client scheduling events and listing the due ones, a request at a time
ListInit ==
    /\ AuxInit
    /\ tz \in (0 - MaxTzWest)..0
    /\ SchedInit
    /\ WorkersInit
    /\ events = << >>

ListNext ==
    \/ Advance
    \/ \E t \in Times, id \in ListIds : ScheduleStart("h1", t, id)
    \/ ScheduleHset("h1")
    \/ ScheduleZadd("h1")
    \/ \E n \in 1..MaxLimit : PendingQuery("h1", n)
    \/ PendingFetch("h1")

ListSpec == ListInit /\ [][ListNext]_vars

----------------------------------------------------------------------------
(* Properties of the scheduler routes *)

\* no request coroutine is between two Redis calls
Quiescent == \A h \in Handlers : hpc[h] = "idle"

\* C2: once every call has returned, an id is in the due-time index
\* (scheduler:queue) if and only if its hash has status SCHEDULED.
C2_IndexIffScheduled ==
    Quiescent =>
        \A id \in Ids \cup {UnknownId} :
            (id \in DOMAIN queue) <=> (Exists(id) /\ jobs[id].status = SCHEDULED)

\* C3: a stored status of COMPLETED or FAILED is never changed to another
\* status, in the scheduler hashes and in the render records.
C3_TerminalStatusKept ==
    [][ /\ \A id \in DOMAIN jobs \cap DOMAIN jobs' :
              jobs[id].status \in {COMPLETED, FAILED} => jobs'[id].status = jobs[id].status
        /\ \A k \in DOMAIN events \cap DOMAIN events' :
              events[k].status \in {COMPLETED, FAILED} => events'[k].status = events[k].status
      ]_vars

\* C4: an id returned by schedule_event is retrievable through get_event with
\* status SCHEDULED and the requested scheduled time, as long as no status
\* update or cleanup has named it.
C4_ScheduledEventRetrievable ==
    \A id \in DOMAIN known \ touched :
        /\ Hgetall(id) # NoJob
        /\ Hgetall(id).status = SCHEDULED
        /\ FromIsoFormat(Hgetall(id).scheduled_time) = known[id]

\* C4 witness: an untouched event with a sub-second scheduled time, after it fell due
C4_Witness ==
    \E id \in DOMAIN known \ touched :
        known[id] % TicksPerSec # 0 /\ known[id] <= now /\ Quiescent

\* C5: a schedule request whose time is not strictly after `now` is never
\* accepted (no handler starts on it), and the step that answers it with the
\* validation error changes neither the hashes nor the index.
C5_PastScheduleRejected ==
    [][ /\ \A h \in Handlers :
              (hpc[h] = "idle" /\ hpc'[h] = "sched_hset") => hreq'[h].t > now
        /\ (resp'.op = "schedule" /\ resp'.code = 422) =>
              (resp'.t <= now /\ jobs' = jobs /\ queue' = queue)
      ]_vars

\* C5 witness: a request for exactly `now` was just rejected, on a store that
\* holds an event
C5_Witness ==
    /\ resp.op = "schedule" /\ resp.code = 422 /\ resp.t = now
    /\ DOMAIN jobs # {} /\ DOMAIN queue # {}

----------------------------------------------------------------------------
(* Properties of the event-checker loops *)

\* C1: at most one loop claims a given event (moves it from pending to
\* processing).
C1_SingleClaim ==
    \A k \in RenderIds : Cardinality(Claims(k)) <= 1

\* C6: an event with a failed publish attempt is FAILED only after
\* max_attempts publish attempts on it have failed (until then it is retried).
C6_FailedOnlyAfterRetries ==
    \A k \in DOMAIN events :
        (events[k].status = FAILED /\ Failures(k) > 0) => Failures(k) >= max_attempts

\* C8: an event left in PROCESSING by a loop that was killed does not stay
\* in PROCESSING forever.
C8_AbandonedEventReclaimed ==
    \A k \in RenderIds :
        (k \in DOMAIN events /\ events[k].status = PROCESSING
            /\ \E w \in Workers : wpc[w] = "crashed" /\ cur[w] = k)
        ~> (k \in DOMAIN events /\ events[k].status # PROCESSING)

\* the event ids handed to the Kafka producer so far
PublishedIds == {k \in RenderIds : Handed(k) # {}}

\* C9: an event accepted by a schedule operation is, once due, eventually
\* handed to the publisher or FAILED.
C9_AcceptedEventDispatched ==
    \A id \in Ids :
        (id \in DOMAIN known /\ known[id] <= now)
        ~> (id \in PublishedIds \/ (Exists(id) /\ jobs[id].status = FAILED))

----------------------------------------------------------------------------
(* Properties of the status writes *)

\* C11: a status write is a compare-and-swap on the status the writer read:
\* a loop writes "processing" only over the "pending" it read, and writes an
\* outcome only over a record that no other writer has finished.
C11_StatusWriteIsCAS ==
    [][\A w \in Workers :
          /\ (wpc[w] = "set_processing" /\ wpc'[w] = "send")
                => RedisGet(cur[w]).status = PENDING
          /\ (wpc[w] = "set_outcome" /\ wpc'[w] = "scan")
                => RedisGet(cur[w]).status \notin {COMPLETED, FAILED}
      ]_vars

----------------------------------------------------------------------------
(* Properties of the cleanup and of the listing *)

\* C12: when remove_completed_events(ids) returns, no id of ids has a record
\* (get_event reports not found) and none is in the due-time index.
C12_RemovedIdsGone ==
    [][\A h \in Handlers :
          (hpc[h] = "rm_delete" /\ hpc'[h] = "idle") =>
              \A i \in Range(hreq[h].acc) : i \notin DOMAIN jobs' /\ i \notin DOMAIN queue'
      ]_vars

\* a step of get_pending_events by request coroutine h
ListingStep(h) ==
    \/ hpc[h] = "idle" /\ hpc'[h] = "pend_fetch"
    \/ hpc[h] = "idle" /\ hpc'[h] = "idle" /\ resp'.op = "pending"
    \/ hpc[h] = "pend_fetch" /\ hreq'[h] # hreq[h]

\* C13: get_pending_events is read-only: none of its steps changes a record
\* or the due-time index.
C13_ListingReadOnly ==
    [][(\E h \in Handlers : ListingStep(h)) => (jobs' = jobs /\ queue' = queue)]_vars

\* C13 witness: a listing has just returned a record
C13_Witness ==
    resp.op = "pending" /\ resp.body # <<>> /\ resp.body[1].event_id \in DOMAIN jobs

\* the place of an id in the order of the ZADD calls
InsertedAt(id) == CHOOSE i \in DOMAIN inserted : inserted[i] = id

\* C14: a listing is in ascending order of scheduled time, and events with the
\* same scheduled time come in the order in which they were inserted.
C14_ListingOrder ==
    resp.op = "pending" =>
        \A i, j \in DOMAIN resp.body :
            i < j =>
                LET a == resp.body[i]
                    b == resp.body[j]
                IN \/ FromIsoFormat(a.scheduled_time) < FromIsoFormat(b.scheduled_time)
                   \/ /\ FromIsoFormat(a.scheduled_time) = FromIsoFormat(b.scheduled_time)
                      /\ InsertedAt(a.event_id) < InsertedAt(b.event_id)

\* C15: a listing returns no event whose scheduled time is later than the
\* time of the call.
C15_ListingDueOnly ==
    resp.op = "pending" =>
        \A i \in DOMAIN resp.body : FromIsoFormat(resp.body[i].scheduled_time) <= now

\* a step of remove_completed_events that deletes the key of id
RemoveStep(id) ==
    \E h \in Handlers :
        hpc[h] = "rm_delete" /\ Head(hreq[h].ids) = id /\ hreq'[h] # hreq[h]

----------------------------------------------------------------------------
(* Properties of the error outcomes *)

\* C17: looking up an id that has no record answers 404, on the scheduler's
\* get_event route and on the render service's get_event_status.
C17_MissingIsNotFound ==
    /\ (resp.op = "get" /\ resp.id \notin DOMAIN jobs) => resp.code = 404
    /\ (resp.op = "render_status" /\ resp.id \notin DOMAIN events) => resp.code = 404

\* C18: update_event_status on an id that has no record answers 404 and
\* leaves the records and the due-time index as they were; only an id that
\* has a record gets as far as the write.
C18_UpdateMissingNotFound ==
    [][ /\ \A h \in Handlers :
              (hpc[h] = "idle" /\ hpc'[h] = "upd_hset") => hreq'[h].id \in DOMAIN jobs
        /\ (resp'.op = "update" /\ resp'.code = 404) =>
              (resp'.id \notin DOMAIN jobs /\ jobs' = jobs /\ queue' = queue)
      ]_vars

\* C18 witness: a status update has just been answered 404
C18_Witness ==
    resp.op = "update" /\ resp.code = 404 /\ resp.id \notin DOMAIN jobs

\* C19: a write that changes the status of an event sets updated_at to the
\* time of the write.
C19_WriteSetsUpdatedAt ==
    [][ /\ \A k \in DOMAIN events \cap DOMAIN events' :
              events'[k].status # events[k].status => events'[k].updated_at = now
        /\ \A id \in DOMAIN jobs \cap DOMAIN jobs' :
              jobs'[id].status # jobs[id].status => jobs'[id].updated_at = IsoFormat(UtcNow)
      ]_vars

\* C20: a storage error ends only the pass it occurs in: each loop goes on
\* starting passes for ever, and an event that was due and not yet visited
\* when a pass failed is processed later.
C20_StorageErrorEndsOnlyTick ==
    /\ \A w \in Workers : []<>(wpc[w] = "scan")
    /\ \A k \in RenderIds :
          (k \in missed) ~> (k \in DOMAIN events /\ events[k].status # PENDING)

\* C20 witness: an event left unvisited by a failed pass has since been claimed
C20_Witness ==
    \E k \in missed :
        events[k].status # PENDING /\ \E w \in Workers : attempts[k][w] # "none"

----------------------------------------------------------------------------
(* Properties of the dispatcher's scheduling *)

\* C21: a publish that has not returned does not stall the other due events:
\* while a loop is inside kafka_producer.send and another event is due and
\* pending, the dispatcher can take a step that is not the return of that call.
C21_PublishDoesNotStall ==
    \A w \in Workers :
        (wpc[w] = "send"
            /\ \E k \in DOMAIN events \ {cur[w]} : DueAndPending(RedisGet(k), now))
        => ENABLED (\E o \in Workers : PassStep(o))

\* C24: no event is handed to the publisher before it is due: whenever a loop
\* is at kafka_producer.send, the current time is at or after the scheduled
\* time of the event it publishes.
C24_NoPublishBeforeDue ==
    \A w \in Workers : wpc[w] = "send" => ev[w].scheduled_time <= now

\* an event scheduled after the start is being published, at the very time it
\* falls due
C24_Witness ==
    \E w \in Workers :
        /\ wpc[w] = "send"
        /\ ev[w].scheduled_time = now
        /\ now > 0

----------------------------------------------------------------------------
(* Further properties of the scheduler's store *)

\* C25: the index has no dangling entry: in every reachable state, the
\* intermediate states of schedule_event and remove_completed_events and the
\* interleavings of concurrent calls included, every id in the due-time index
\* has a record in the event store.
C25_NoDanglingIndexEntry ==
    \A id \in DOMAIN queue : Exists(id)

\* an id is in the index, with its record, while a removal is between its
\* ZREM and its last DEL
C25_Witness ==
    /\ \E id \in DOMAIN queue : Exists(id)
    /\ \E h \in Handlers : hpc[h] = "rm_delete"

\* C26: update_event_status never creates a record: under any interleaving of
\* update_event_status with remove_completed_events, every record in the store
\* is a complete one written by schedule_event (it has its event_id and a
\* scheduled_time).
C26_UpdateNeverCreates ==
    \A id \in DOMAIN jobs :
        jobs[id].event_id = id /\ jobs[id].scheduled_time # NoJob.scheduled_time

----------------------------------------------------------------------------
(* Properties of the render routes *)

C23_ScheduledIsPending ==
    resp.op = "render_schedule" =>
        /\ resp.code = 200
        /\ \E i \in DOMAIN resp.body : resp.body[i].status = PENDING

----------------------------------------------------------------------------
(* Properties of RedisManager *)

\* C27: get_client always returns a usable client: under any interleaving of
\* get_client, initialize and close, the value a request receives from
\* get_client is never None and never a client that close has closed.
C27_GetClientUsable ==
    [][\A h \in Handlers :
          (mgr.rpc[h] = "new" /\ mgr'.rpc[h] = "got") =>
              mgr'.held[h] # None /\ mgr'.held[h] \notin mgr'.closed
      ]_vars

----------------------------------------------------------------------------
(* Properties of ValidationService._make_request *)

\* C28: _make_request makes at most max_retries attempts; it returns the
\* response of the first attempt that succeeds and attempts nothing after it;
\* it sleeps retry_delay between a failed attempt and the next one; the last
\* failed attempt raises an error at once; it never returns without a response.
C28_RetryContract ==
    [][\A c \in Calls :
          /\ val'[c].made <= max_retries
          /\ val[c].pc = "done" => val'[c] = val[c]
          /\ (val[c].pc = "sleep" /\ val'[c].pc = "get") => val[c].slept >= retry_delay
          /\ val'[c].made = max_retries => val'[c].pc = "done"
          /\ val'[c].pc = "done" => val'[c].out \in {"response", "error"}
      ]_vars

\* one call has failed max_retries times and raised, another has returned the
\* response of its second attempt
C28_Witness ==
    \E c, d \in Calls :
        /\ val[c].out = "error" /\ val[c].made = max_retries /\ val[c].attempt = max_retries - 1
        /\ val[d].out = "response" /\ val[d].made = 2 /\ val[d].slept = retry_delay

----------------------------------------------------------------------------
(* Properties of the scheduler router *)

\* C29: a GET request for /events/pending is handled by get_pending_events and
\* is not captured by the lookup route: no answer of get_event is for the
\* event id "pending".
C29_PendingNotCaptured == ~(resp.op = "get" /\ resp.id = PendingWord)

====
